---- MODULE Spec2Model ----
(***************************************************************************)
(* NSE insider-trading scraper (cron_script.py): the update cycle of       *)
(* NSEInsiderTradingScraper.  One cycle fetches a batch of rows, cleans    *)
(* it, merges it into the CSV data file by a composite string key, backs   *)
(* the old file up by renaming it and writes the merged frame.  Continuous *)
(* mode repeats the cycle with a fixed sleep in between.  The date window *)
(* of a fetch (get_last_update_time and the 30-day clamp) is a function of *)
(* the data file and the clock, and has a specification of its own,        *)
(* WindowSpec.                                                             *)
(*                                                                         *)
(* A DataFrame is a sequence of rows; a cell holds the text str(value)     *)
(* yields for it, or NA.  A numeric column is int64 or float64 as a whole, *)
(* so one number is the cell "100" in an int64 column and "100.0" in a     *)
(* float64 one.  The data file holds the text to_csv wrote.                *)
(***************************************************************************)
EXTENDS Integers, Sequences, FiniteSets, TLC

\* Bounds of the model.
MaxBatch == 2      \* rows in one API response
MaxCycles == 2     \* update cycles one process runs

\* ------------------------------------------------------------------------
\* Values

\* pd.NA / NaN / NaT: the missing value of a cell.
NA == "<NA>"

\* create_unique_key: key_fields
key_fields == <<"symbol", "company", "name", "date", "secVal", "tdpTransactionType">>

\* The literals pd.to_numeric reads as whole numbers, and the same numbers
\* as a float64 column prints them.
IntTexts == {"100", "10", "999", "5"}
FloatOf(t) == t \o ".0"
FloatTexts == {FloatOf(t) : t \in IntTexts}
IntOf(t) == CHOOSE i \in IntTexts : FloatOf(i) = t

\* The cells pd.read_csv reads as missing (its default na_values).
CsvNaValues == {"", "#N/A", "#N/A N/A", "#NA", "-1.#IND", "-1.#QNAN", "-NaN", "-nan",
                "1.#IND", "1.#QNAN", "<NA>", "N/A", "NA", "NULL", "NaN", "None",
                "n/a", "nan", "null"}

\* Rows of the API's "data" list, as the JSON carries them.
RawA == [symbol |-> "ABC", company |-> "ABC Ltd", name |-> "Promoter P",
         date |-> "02-Jan-2024 10:30", secVal |-> "100",
         tdpTransactionType |-> "Buy", buyQuantity |-> "10"]
\* RawA again with another non-key field.
RawA2 == [RawA EXCEPT !.buyQuantity = "999"]
\* A later disclosure whose value and holder name the feed gives as "-".
RawB == [symbol |-> "XYZ", company |-> "XYZ Ltd", name |-> "-",
         date |-> "03-Jan-2024 10:30", secVal |-> "-",
         tdpTransactionType |-> "Sell", buyQuantity |-> "5"]
RawRows == {RawA, RawA2, RawB}

SeqsUpTo(S, n) == UNION {[1..k -> S] : k \in 0..n}

\* The "data" lists a response can carry: up to MaxBatch rows, no row twice
\* verbatim (RawA and RawA2 are the rows with one key).
Batches == {b \in SeqsUpTo(RawRows, MaxBatch) : \A i, j \in 1..Len(b) : b[i] = b[j] => i = j}

\* ------------------------------------------------------------------------
\* clean_data

\* pd.to_datetime(col, format='%d-%b-%Y %H:%M', errors='coerce'), then str().
ParseDate(s) ==
    CASE s = "02-Jan-2024 10:30" -> "2024-01-02 10:30:00"
      [] s = "03-Jan-2024 10:30" -> "2024-01-03 10:30:00"
      [] OTHER -> NA

\* pd.to_numeric(cell, errors='coerce'): the number, or NaN.
ToNumeric(s) == IF s \in IntTexts THEN s ELSE NA

\* A numeric column is float64 as soon as one cell is NaN or not whole.
IsFloatCol(df, col) == \E i \in 1..Len(df) : df[i][col] = NA \/ df[i][col] \in FloatTexts

\* str() of a number in a column of the given dtype.
Render(v, isFloat) ==
    IF v = NA THEN NA
    ELSE IF v \in FloatTexts THEN v
    ELSE IF isFloat THEN FloatOf(v) ELSE v

\* pd.to_numeric over a whole column.
NumericCol(df, col) ==
    LET parsed == [i \in 1..Len(df) |-> [df[i] EXCEPT ![col] = ToNumeric(df[i][col])]]
    IN  [i \in 1..Len(df) |-> Render(parsed[i][col], IsFloatCol(parsed, col))]

\* df.replace([None, '-', ''], pd.NA) on a text cell.
ReplaceMissing(s) == IF s \in {"-", ""} THEN NA ELSE s

clean_data(df) ==
    IF df = <<>> THEN df
    ELSE LET sec == NumericCol(df, "secVal")
             qty == NumericCol(df, "buyQuantity")
         IN  [i \in 1..Len(df) |->
                [symbol |-> ReplaceMissing(df[i].symbol),
                 company |-> ReplaceMissing(df[i].company),
                 name |-> ReplaceMissing(df[i].name),
                 date |-> ParseDate(df[i].date),
                 secVal |-> sec[i],
                 tdpTransactionType |-> ReplaceMissing(df[i].tdpTransactionType),
                 buyQuantity |-> qty[i]]]

\* ------------------------------------------------------------------------
\* The CSV file

\* One cell as to_csv writes it: a missing value is the empty field.
CsvCell(v) == IF v = NA THEN "" ELSE v

\* combined_df.to_csv(self.data_file, index=False): the rows of the file.
to_csv(df) == [i \in 1..Len(df) |-> [f \in DOMAIN df[i] |-> CsvCell(df[i][f])]]

\* A text cell as read_csv reads it.
ReadText(t) == IF t \in CsvNaValues THEN NA ELSE t

\* A numeric column as read_csv types it: int64 when every cell is a whole
\* number, float64 when some cell is empty or has a decimal point.
ReadNumericCol(rows, col) ==
    LET cells == [i \in 1..Len(rows) |-> [rows[i] EXCEPT ![col] = ReadText(rows[i][col])]]
    IN  [i \in 1..Len(rows) |-> Render(cells[i][col], IsFloatCol(cells, col))]

\* pd.to_datetime(existing_df['date'], errors='coerce'), then str().
ParseIsoDate(t) ==
    IF t \in {"2024-01-02 10:30:00", "2024-01-03 10:30:00"} THEN t ELSE NA

\* pd.read_csv(self.data_file) followed by the date conversion of
\* update_data_file.
read_csv(rows) ==
    LET sec == ReadNumericCol(rows, "secVal")
        qty == ReadNumericCol(rows, "buyQuantity")
    IN  [i \in 1..Len(rows) |->
           [symbol |-> ReadText(rows[i].symbol),
            company |-> ReadText(rows[i].company),
            name |-> ReadText(rows[i].name),
            date |-> ParseIsoDate(rows[i].date),
            secVal |-> sec[i],
            tdpTransactionType |-> ReadText(rows[i].tdpTransactionType),
            buyQuantity |-> qty[i]]]

\* ------------------------------------------------------------------------
\* create_unique_key and the merge of update_data_file

RECURSIVE Join(_)
\* '|'.join(key_parts)
Join(parts) ==
    IF parts = <<>> THEN ""
    ELSE IF Len(parts) = 1 THEN parts[1]
    ELSE parts[1] \o "|" \o Join(Tail(parts))

create_unique_key(row) ==
    Join([k \in 1..Len(key_fields) |->
            IF row[key_fields[k]] # NA THEN row[key_fields[k]] ELSE "NA"])

\* df.apply(self.create_unique_key, axis=1) as a set: Series.isin
UniqueKeys(df) == {create_unique_key(df[i]) : i \in 1..Len(df)}

RECURSIVE Filter(_, _)
\* new_df[~new_df['unique_key'].isin(existing_df['unique_key'])]
Filter(df, keys) ==
    IF df = <<>> THEN <<>>
    ELSE IF create_unique_key(Head(df)) \in keys THEN Filter(Tail(df), keys)
    ELSE <<Head(df)>> \o Filter(Tail(df), keys)

\* The merge without the isin test: every incoming record counts as new.
NewRecords_unfiltered(existing_df, new_df) == new_df

NewRecords(existing_df, new_df) == Filter(new_df, UniqueKeys(existing_df))

\* pd.concat([existing_df, new_records], ignore_index=True): a numeric
\* column of the result is float64 when it is float64 in either frame.
concat(a, b) ==
    LET all == a \o b
    IN  [i \in 1..Len(all) |->
           [all[i] EXCEPT !.secVal = Render(@, IsFloatCol(all, "secVal")),
                          !.buyQuantity = Render(@, IsFloatCol(all, "buyQuantity"))]]

\* Order of the Timestamps the model knows.
DateOrd(d) ==
    CASE d = "2024-01-02 10:30:00" -> 2
      [] d = "2024-01-03 10:30:00" -> 3
      [] OTHER -> 0

RECURSIVE InsertDesc(_, _)
\* Insert row behind every row whose date is not earlier (stable).
InsertDesc(row, sorted) ==
    IF sorted = <<>> THEN <<row>>
    ELSE IF DateOrd(Head(sorted).date) >= DateOrd(row.date)
         THEN <<Head(sorted)>> \o InsertDesc(row, Tail(sorted))
         ELSE <<row>> \o sorted

RECURSIVE SortDesc(_)
SortDesc(df) ==
    IF df = <<>> THEN <<>>
    ELSE InsertDesc(df[Len(df)], SortDesc(SubSeq(df, 1, Len(df) - 1)))

\* combined_df.sort_values('date', ascending=False): latest first, equal
\* dates in their order of appearance, missing dates last.
sort_values(df) ==
    SortDesc(SelectSeq(df, LAMBDA r : r.date # NA)) \o SelectSeq(df, LAMBDA r : r.date = NA)

\* ------------------------------------------------------------------------
\* fetch_insider_data: the checks made on the API's response

\* The result None, and a (DataFrame, from, to) result.
None == [ok |-> FALSE, df |-> <<>>]
Result(rows) == [ok |-> TRUE, df |-> rows]

\* A response of session.get: whether the call raised, the status code, the
\* Content-Encoding header and what brotli makes of the body, the
\* content-type header, and the body: what json.loads makes of it and the
\* rows under "data".
Response(exc, status, encoding, brotli, ctype, kind, rows) ==
    [exc |-> exc, status |-> status, encoding |-> encoding, brotli |-> brotli,
     ctype |-> ctype, kind |-> kind, rows |-> rows]

GoodResponse(rows) == Response(FALSE, 200, "gzip", "ok", "application/json; charset=utf-8", "data", rows)

FailedResponses ==
    {Response(TRUE, 200, "gzip", "ok", "application/json", "data", <<RawA>>),
     Response(FALSE, 403, "gzip", "ok", "application/json", "data", <<RawA>>),
     Response(FALSE, 200, "br", "bad", "application/json", "data", <<RawA>>),
     Response(FALSE, 200, "br", "missing", "application/json", "data", <<RawA>>),
     Response(FALSE, 200, "gzip", "ok", "text/html", "data", <<RawA>>),
     Response(FALSE, 200, "gzip", "ok", "application/json", "malformed", <<>>),
     Response(FALSE, 200, "gzip", "ok", "application/json", "list", <<>>),
     Response(FALSE, 200, "gzip", "ok", "application/json", "no_data_key", <<>>)}

Responses ==
    {GoodResponse(b) : b \in Batches}
        \cup {Response(FALSE, 200, "br", "ok", "application/json", "data", <<RawB>>),
              Response(FALSE, 200, "gzip", "ok", "application/json", "data_null", <<>>)}
        \cup FailedResponses

\* 'application/json' in content_type
IsJsonContentType(ctype) == ctype \in {"application/json", "application/json; charset=utf-8"}

\* The local data of fetch_insider_data: nothing before line 171 is
\* reached, nothing when json.loads raises, and else the shape of what
\* json.loads returned.
JsonBody(r) ==
    IF r.exc \/ r.status # 200 \/ (r.encoding = "br" /\ r.brotli # "ok")
            \/ ~IsJsonContentType(r.ctype)
    THEN "unparsed"
    ELSE IF r.kind = "data" /\ r.rows = <<>> THEN "data_empty"
    ELSE r.kind

fetch_insider_data(r) ==
    IF r.exc THEN None
    ELSE IF r.status # 200 THEN None
    ELSE IF r.encoding = "br" /\ r.brotli # "ok" THEN None
    ELSE IF ~IsJsonContentType(r.ctype) THEN None
    ELSE IF r.kind = "malformed" THEN None
    ELSE IF r.kind \in {"list", "no_data_key"} THEN None
    ELSE IF r.rows = <<>> THEN Result(<<>>)
    ELSE Result(r.rows)

\* ------------------------------------------------------------------------
\* State

\* The file at a path: absent, unparseable (no bytes), or a CSV with rows.
Absent == [st |-> "absent", rows |-> <<>>]
Unparseable == [st |-> "empty", rows |-> <<>>]
Csv(rows) == [st |-> "ok", rows |-> rows]

\* os.path.exists(self.data_file)
Exists(f) == f.st # "absent"

\* Whether pd.read_csv raises on the file (EmptyDataError).
ReadRaises(f) == f.st = "empty"

\* --interval values the argument parser accepts (type=int), and the default.
DefaultInterval == 15
Intervals == {-1, 0, DefaultInterval}

\* time.sleep(interval_minutes * 60) raises ValueError on a negative length.
SleepRaises(interval_minutes) == interval_minutes * 60 < 0

VARIABLES
    mode,          \* --mode
    interval,      \* --interval
    pc,            \* where the process is
    body,          \* fetch_insider_data: what json.loads made of the response
    result,        \* run_update_cycle: what fetch_insider_data returned
    cycles,        \* cycles started so far
    file,          \* the file at self.data_file
    backups,       \* the file at self.data_file + ".backup_" + second, per second
    new_df,        \* update_data_file: the cleaned incoming frame
    combined_df,   \* update_data_file: the frame to write
    new_records,   \* update_data_file: the records counted as new
    ret,           \* what update_data_file returned
    success,       \* what run_update_cycle returned
    pre_file,      \* the data file as it was when the cycle began
    now,           \* fetch_insider_data: the day datetime.now() shows
    mtime,         \* the day of the data file's st_mtime
    last_update,   \* what get_last_update_time returned
    from_date      \* fetch_insider_data: from_date as sent to the API

vars == <<mode, interval, pc, body, result, cycles, file, backups, new_df, combined_df,
          new_records, ret, success, pre_file, now, mtime, last_update, from_date>>

\* The locals of the window computation (lines 82-124).
window == <<now, mtime, last_update, from_date>>

\* datetime.now().strftime('%Y%m%d_%H%M%S'): the seconds the wall clock can
\* show when a backup is made.
Seconds == {"20240105_101500", "20240105_101501"}

\* The data file a process finds when it starts: none, or the one an
\* earlier run wrote.
InitialFiles == {Absent, Csv(to_csv(clean_data(<<RawB>>)))}

Init ==
    /\ mode \in {"once", "continuous"}
    /\ interval \in Intervals
    /\ mode = "once" => interval = DefaultInterval
    /\ pc = "cycle"
    /\ body = "unset"
    /\ result = "unset"
    /\ cycles = 0
    /\ file \in InitialFiles
    /\ backups = [t \in Seconds |-> Absent]
    /\ new_df = <<>>
    /\ combined_df = <<>>
    /\ new_records = <<>>
    /\ ret = 0
    /\ success = FALSE
    /\ pre_file = Absent
    /\ now = 0
    /\ mtime = 0
    /\ last_update = 0
    /\ from_date = 0

\* ------------------------------------------------------------------------
\* run_update_cycle

\* Lines 322-342: cookies, the fetch and clean_data.  A fetch that returns
\* None ends the cycle with False.
Fetch ==
    /\ pc = "cycle"
    /\ cycles < MaxCycles
    /\ cycles' = cycles + 1
    /\ pre_file' = file
    /\ \E r \in Responses :
         LET fetched == fetch_insider_data(r)
         IN  /\ body' = JsonBody(r)
             /\ IF ~fetched.ok
                THEN /\ result' = "None"
                     /\ success' = FALSE
                     /\ pc' = "returned"
                     /\ UNCHANGED new_df
                ELSE /\ result' = "frame"
                     /\ new_df' = clean_data(fetched.df)
                     /\ pc' = "update"
                     /\ UNCHANGED success
    /\ UNCHANGED window
    /\ UNCHANGED <<mode, interval, file, backups, combined_df, new_records, ret>>

\* update_data_file without its guard on an empty frame.
IsEmptyFrame_never(df) == FALSE

\* new_df is None or new_df.empty
IsEmptyFrame(df) == df = <<>>

\* update_data_file, lines 243-270: the body of the try, on a file that
\* reads: the frame to write and the records that count as new; early when
\* no incoming key is new (return 0 at line 259).
TryMerge(f, df) ==
    LET existing_df == read_csv(f.rows)
        fresh == NewRecords(existing_df, df)
    IN  IF IsEmptyFrame(fresh)
        THEN [early |-> TRUE, combined |-> <<>>, fresh |-> fresh]
        ELSE [early |-> FALSE, combined |-> sort_values(concat(existing_df, fresh)),
              fresh |-> fresh]

\* The merge with a read error ending the update instead of being caught.
Merge_abortOnReadError(f, df) ==
    IF Exists(f)
    THEN IF ReadRaises(f)
         THEN [early |-> TRUE, combined |-> <<>>, fresh |-> <<>>]
         ELSE TryMerge(f, df)
    ELSE [early |-> FALSE, combined |-> df, fresh |-> df]

\* update_data_file, lines 241-279.  A read that raises is caught at line
\* 272 and the incoming frame written as if there were no file.
Merge(f, df) ==
    IF Exists(f) /\ ~ReadRaises(f)
    THEN TryMerge(f, df)
    ELSE [early |-> FALSE, combined |-> df, fresh |-> df]

\* update_data_file, lines 236-279: the early return on an empty frame, the
\* read of the existing file and the merge.
UpdateMerge ==
    /\ pc = "update"
    /\ IF IsEmptyFrame(new_df)
       THEN /\ ret' = 0
            /\ pc' = "summary"
            /\ UNCHANGED <<combined_df, new_records>>
       ELSE LET m == Merge(file, new_df)
            IN  /\ new_records' = m.fresh
                /\ combined_df' = m.combined
                /\ IF m.early
                   THEN ret' = 0 /\ pc' = "summary"
                   ELSE pc' = "backup" /\ UNCHANGED ret
    /\ UNCHANGED window
    /\ UNCHANGED <<mode, interval, body, result, cycles, file, backups, new_df, success, pre_file>>

\* os.rename(self.data_file, backup_file): the backup path now holds the
\* file, replacing whatever was at that path.
Rename(f, bk, second) == [bk EXCEPT ![second] = f]

\* Lines 284-287: the existing file is renamed to the backup path of the
\* current second.  datetime.now() is the naive local wall clock, which a
\* clock adjustment or the end of daylight saving time sets back, and
\* update_data_file can be called twice within a second: the second read
\* is any of Seconds, and the code does not look whether the path exists.
Backup ==
    /\ pc = "backup"
    /\ IF Exists(file)
       THEN \E second \in Seconds :
              /\ backups' = Rename(file, backups, second)
              /\ file' = Absent
       ELSE UNCHANGED <<file, backups>>
    /\ pc' = "write"
    /\ UNCHANGED window
    /\ UNCHANGED <<mode, interval, body, result, cycles, new_df, combined_df, new_records, ret,
                   success, pre_file>>

\* os.rename raises: lines 296-298.
BackupFail ==
    /\ pc = "backup"
    /\ Exists(file)
    /\ ret' = 0
    /\ pc' = "summary"
    /\ UNCHANGED window
    /\ UNCHANGED <<mode, interval, body, result, cycles, file, backups, new_df, combined_df,
                   new_records, success, pre_file>>

\* Lines 290-294: the write succeeds.
Write ==
    /\ pc = "write"
    /\ file' = Csv(to_csv(combined_df))
    /\ ret' = Len(new_records)
    /\ pc' = "summary"
    /\ UNCHANGED window
    /\ UNCHANGED <<mode, interval, body, result, cycles, backups, new_df, combined_df, new_records,
                   success, pre_file>>

\* What a to_csv that raised can leave at the path: nothing, a file without
\* bytes, or the header and the first rows.
FailedWrites(df) ==
    {Absent, Unparseable} \cup {Csv(SubSeq(to_csv(df), 1, k)) : k \in 1..(Len(df) - 1)}

\* A handler of the failed write that renames the backup back.
WriteFail_restoring ==
    /\ pc = "write"
    /\ file' = pre_file
    /\ backups' = [t \in Seconds |-> IF backups[t] = pre_file THEN Absent ELSE backups[t]]
    /\ ret' = 0
    /\ pc' = "summary"
    /\ UNCHANGED window
    /\ UNCHANGED <<mode, interval, body, result, cycles, new_df, combined_df, new_records,
                   success, pre_file>>

\* combined_df.to_csv raises: lines 296-298.
WriteFail ==
    /\ pc = "write"
    /\ file' \in FailedWrites(combined_df)
    /\ ret' = 0
    /\ pc' = "summary"
    /\ UNCHANGED window
    /\ UNCHANGED <<mode, interval, body, result, cycles, backups, new_df, combined_df, new_records,
                   success, pre_file>>

\* A cycle that reports the outcome of update_data_file.
Summary_countDecides ==
    /\ pc = "summary"
    /\ success' = (ret > 0 /\ ~(Exists(file) /\ ReadRaises(file)))
    /\ pc' = "returned"
    /\ UNCHANGED window
    /\ UNCHANGED <<mode, interval, body, result, cycles, file, backups, new_df, combined_df,
                   new_records, ret, pre_file>>

\* Lines 348-357: the file is read again for the summary; a read that
\* raises is caught at line 355.
Summary ==
    /\ pc = "summary"
    /\ success' = ~(Exists(file) /\ ReadRaises(file))
    /\ pc' = "returned"
    /\ UNCHANGED window
    /\ UNCHANGED <<mode, interval, body, result, cycles, file, backups, new_df, combined_df,
                   new_records, ret, pre_file>>

\* ------------------------------------------------------------------------
\* main and run_continuous

\* The locals and return values of a cycle that is over are gone.
Gone ==
    /\ body' = "unset"
    /\ result' = "unset"
    /\ new_df' = <<>>
    /\ combined_df' = <<>>
    /\ new_records' = <<>>
    /\ ret' = 0
    /\ success' = FALSE
    /\ pre_file' = Absent

\* --mode once: main returns after the one cycle.
Exit ==
    /\ pc = "returned"
    /\ mode = "once"
    /\ pc' = "exit"
    /\ Gone
    /\ UNCHANGED window
    /\ UNCHANGED <<mode, interval, cycles, file, backups>>

\* run_continuous, lines 369-375: the sleep after a cycle, whatever the
\* cycle returned, and then the next cycle.
Sleep ==
    /\ pc = "returned"
    /\ mode = "continuous"
    /\ ~SleepRaises(interval)
    /\ cycles < MaxCycles
    /\ pc' = "cycle"
    /\ Gone
    /\ UNCHANGED window
    /\ UNCHANGED <<mode, interval, cycles, file, backups>>

\* time.sleep raises: caught by `except Exception` at line 379, which ends
\* run_continuous.
SleepFail ==
    /\ pc = "returned"
    /\ mode = "continuous"
    /\ SleepRaises(interval)
    /\ pc' = "crashed"
    /\ Gone
    /\ UNCHANGED window
    /\ UNCHANGED <<mode, interval, cycles, file, backups>>

Running == {"cycle", "update", "backup", "write", "summary", "returned"}

\* KeyboardInterrupt: not an Exception, so no handler of the cycle catches
\* it; run_continuous logs it at line 378, --mode once dies of it.
Interrupt ==
    /\ pc \in Running
    /\ pc' = "interrupted"
    /\ Gone
    /\ UNCHANGED window
    /\ UNCHANGED <<mode, interval, cycles, file, backups>>

Next ==
    \/ Fetch
    \/ UpdateMerge
    \/ Backup
    \/ BackupFail
    \/ Write
    \/ WriteFail
    \/ Summary
    \/ Exit
    \/ Sleep
    \/ SleepFail
    \/ Interrupt

Spec == Init /\ [][Next]_vars

\* ------------------------------------------------------------------------
\* The fetch window: get_last_update_time and lines 111-124 of
\* fetch_insider_data.  A date is its day, counted from 2023-12-31 as
\* DateOrd counts it: strftime('%d-%m-%Y') sends the day only, and of two
\* datetimes the earlier one is never on the later day.

MaxDay == 40           \* the days the clock and st_mtime range over

\* timedelta(days=7): the lookback without a usable file.
LookbackDays == 7
\* timedelta(days=30): the NSE limit.
MaxBackDays == 30

Days == 1..MaxDay

\* A disclosure whose date the feed gives as "-".
RawC == [RawB EXCEPT !.date = "-"]

\* 'date' in df.columns, to_datetime(errors='coerce'), pd.notna(max()).
HasDate(df) == \E i \in 1..Len(df) : df[i].date # NA

\* df['date'].max() over the dates that are not NaT.
MaxDate(df) ==
    LET ds == {DateOrd(df[i].date) : i \in {j \in 1..Len(df) : df[j].date # NA}}
    IN  CHOOSE d \in ds : \A e \in ds : e <= d

get_last_update_time(f, today, st_mtime) ==
    IF ~Exists(f) THEN today - LookbackDays
    ELSE IF ReadRaises(f) THEN today - LookbackDays
    ELSE LET df == read_csv(f.rows)
         IN  IF IsEmptyFrame(df) THEN today - LookbackDays
             ELSE IF HasDate(df) THEN MaxDate(df)
             ELSE st_mtime

\* Lines 117-120 without the comparison.
ClampFromDate_unclamped(from, today) == from

\* Lines 117-120: no further back than 30 days.
ClampFromDate(from, today) ==
    LET max_back_date == today - MaxBackDays
    IN  IF from < max_back_date THEN max_back_date ELSE from

\* The data files a cycle can find: none, one without bytes, the header
\* alone, and the ones a first write leaves.
WindowFiles ==
    {Absent, Unparseable, Csv(<<>>)}
        \cup {Csv(to_csv(clean_data(b))) : b \in Batches \ {<<>>}}
        \cup {Csv(to_csv(clean_data(<<RawC>>))), Csv(to_csv(clean_data(<<RawC, RawA>>)))}

WindowInit ==
    /\ mode = "once"
    /\ interval = DefaultInterval
    /\ pc = "last_update"
    /\ body = "unset"
    /\ result = "unset"
    /\ cycles = 0
    /\ file \in WindowFiles
    /\ backups = [t \in Seconds |-> Absent]
    /\ new_df = <<>>
    /\ combined_df = <<>>
    /\ new_records = <<>>
    /\ ret = 0
    /\ success = FALSE
    /\ pre_file = Absent
    /\ now \in Days
    /\ mtime \in Days
    /\ mtime <= now
    /\ last_update = 0
    /\ from_date = 0

\* Line 115: from_date = self.get_last_update_time()
GetLastUpdateTime ==
    /\ pc = "last_update"
    /\ last_update' = get_last_update_time(file, now, mtime)
    /\ pc' = "clamp"
    /\ UNCHANGED <<now, mtime, from_date>>
    /\ UNCHANGED <<mode, interval, body, result, cycles, file, backups, new_df, combined_df,
                   new_records, ret, success, pre_file>>

\* Lines 117-124: the clamp, and from_date_str.
Clamp ==
    /\ pc = "clamp"
    /\ from_date' = ClampFromDate(last_update, now)
    /\ pc' = "request"
    /\ UNCHANGED <<now, mtime, last_update>>
    /\ UNCHANGED <<mode, interval, body, result, cycles, file, backups, new_df, combined_df,
                   new_records, ret, success, pre_file>>

WindowNext ==
    \/ GetLastUpdateTime
    \/ Clamp

WindowSpec == WindowInit /\ [][WindowNext]_vars

TypeOK ==
    /\ pc \in Running \cup {"exit", "crashed", "interrupted", "last_update", "clamp", "request"}
    /\ body \in {"unset", "unparsed", "malformed", "list", "no_data_key", "data_null",
                 "data_empty", "data"}
    /\ result \in {"unset", "None", "frame"}
    /\ file.st \in {"absent", "empty", "ok"}
    /\ ret \in 0..(MaxBatch + 1)

\* ------------------------------------------------------------------------
\* Properties

Range(q) == {q[i] : i \in 1..Len(q)}
Count(r, q) == Cardinality({i \in 1..Len(q) : q[i] = r})

\* The number a numeric cell stands for, whatever the dtype of its column.
Num(v) == IF v \in FloatTexts THEN IntOf(v) ELSE v
Canon(row) == [row EXCEPT !.secVal = Num(@), !.buyQuantity = Num(@)]
CanonSeq(q) == [i \in 1..Len(q) |-> Canon(q[i])]

\* The same records, each as often, in any order.
SameBag(p, q) ==
    /\ Len(p) = Len(q)
    /\ \A r \in Range(p) \cup Range(q) : Count(r, p) = Count(r, q)

\* Two records with the same value in each of the six key fields.
SameKeyFields(a, b) ==
    \A k \in 1..Len(key_fields) : Canon(a)[key_fields[k]] = Canon(b)[key_fields[k]]

\* The cycle is past the merge / past update_data_file.
PastMerge == pc \in {"backup", "write", "summary", "returned"}
PastUpdate == pc \in {"summary", "returned"}

\* update_data_file wrote the merged frame during this cycle.
Written == PastUpdate /\ combined_df # <<>> /\ file = Csv(to_csv(combined_df))

\* The records of the data file, as the next cycle reads them.
OnDisk == read_csv(file.rows)

\* C1: after a merge has completed and the file has been written, no two
\* records of the data file have equal identity keys.
C1_NoEqualKeysOnDisk ==
    Written =>
        \A i, j \in 1..Len(OnDisk) :
            i # j => create_unique_key(OnDisk[i]) # create_unique_key(OnDisk[j])

\* C2: an overwrite of an existing data file leaves a backup with the
\* pre-update content and original_count plus the new records in the
\* primary file, and no step ever removes or replaces a backup made before.
C2_BackupKeptForever ==
    [][/\ \A t \in Seconds : Exists(backups[t]) => backups'[t] = backups[t]
       /\ (pc = "write" /\ pc' = "summary" /\ ret' > 0 /\ Exists(pre_file)) =>
             /\ \E t \in Seconds : backups'[t] = pre_file
             /\ pre_file.st = "ok" =>
                   Len(file'.rows) = Len(pre_file.rows) + Len(new_records)]_vars

\* C3: an empty incoming frame makes update_data_file return 0 and no step
\* of the cycle from there on touches the data file or a backup.
C3_EmptyBatchNoOp ==
    [][(result = "frame" /\ new_df = <<>> /\ pc \in {"update", "backup", "write", "summary"}) =>
          /\ file' = file
          /\ backups' = backups
          /\ pc' \in {"summary", "returned", "interrupted"}
          /\ pc' \in {"summary", "returned"} => ret' = 0]_vars

C3_Witness ==
    /\ pc = "returned"
    /\ result = "frame"
    /\ new_df = <<>>
    /\ ret = 0
    /\ file = pre_file
    /\ file.st = "ok"

\* Every incoming record is already a record of the data file.
AllStored(df, existing_df) ==
    \A i \in 1..Len(df) : \E j \in 1..Len(existing_df) : Canon(df[i]) = Canon(existing_df[j])

\* C4: merging records the data file already holds, as when a batch is
\* fetched again in a later cycle, finds no new record, returns 0 and
\* leaves the data file as it was.
C4_MergeIdempotent ==
    (PastMerge /\ result = "frame" /\ new_df # <<>> /\ pre_file.st = "ok"
        /\ AllStored(new_df, read_csv(pre_file.rows))) =>
        /\ new_records = <<>>
        /\ pc \in {"summary", "returned"}
        /\ ret = 0
        /\ file = pre_file

\* C5: records that agree on the six key fields and differ elsewhere have
\* the same identity key, and of such records only the first seen is in the
\* written file.
C5_OneRecordPerKeyFields ==
    /\ \A i, j \in 1..Len(new_df) :
          SameKeyFields(new_df[i], new_df[j]) =>
              create_unique_key(new_df[i]) = create_unique_key(new_df[j])
    /\ Written =>
          \A i, j \in 1..Len(OnDisk) :
              (i # j /\ Canon(OnDisk[i]) # Canon(OnDisk[j])) =>
                  ~SameKeyFields(OnDisk[i], OnDisk[j])

\* What the merge over a readable file computes: new_records are the
\* incoming records whose key no existing record has, in their order, and
\* the frame to write holds each existing record and each new one once.
MergeKeepsExisting ==
    LET existing_df == read_csv(pre_file.rows)
        keys == {create_unique_key(existing_df[j]) : j \in 1..Len(existing_df)}
    IN  /\ new_records = SelectSeq(new_df, LAMBDA r : create_unique_key(r) \notin keys)
        /\ new_records # <<>> =>
              /\ SameBag(CanonSeq(combined_df), CanonSeq(existing_df \o new_records))
              /\ Len(combined_df) = Len(existing_df) + Len(new_records)
        /\ Written =>
              /\ SameBag(CanonSeq(OnDisk), CanonSeq(existing_df \o new_records))
              /\ Len(file.rows) = Len(pre_file.rows) + Len(new_records)

\* A cycle whose incoming frame has rows and whose data file read.
MergedReadable == PastMerge /\ result = "frame" /\ new_df # <<>> /\ pre_file.st = "ok"

\* C6 as claimed: over a readable file the merge keeps every existing
\* record and adds the new ones, and update_data_file returns the number
\* of new records.
C6_ReturnsNewCount ==
    MergedReadable =>
        /\ MergeKeepsExisting
        /\ PastUpdate => ret = Len(new_records)

\* C6: over a readable file the merge keeps every existing record and adds
\* the new ones; update_data_file returns the number of new records when
\* the rename and the write succeed, and 0 when either raises.
C6_ReturnsNewCountWhenSaved ==
    MergedReadable =>
        /\ MergeKeepsExisting
        /\ PastUpdate => ret = (IF Written THEN Len(new_records) ELSE 0)

C6_Witness ==
    /\ MergedReadable
    /\ Written
    /\ ret = 1
    /\ Len(new_df) = 2
    /\ Len(file.rows) = Len(pre_file.rows) + 1

\* C7: whatever fails inside a cycle, the data file afterwards is the one
\* from before the cycle or the completely written merged one.
C7_CycleAtomic ==
    PastUpdate => (file = pre_file \/ Written)

\* C8: a failed fetch makes run_update_cycle return False with the data
\* file and the backups as they were, and continuous mode then sleeps and
\* starts the next cycle instead of ending.
C8_FetchFailureRetried ==
    [][/\ (pc = "cycle" /\ result' = "None") =>
             (pc' = "returned" /\ ~success' /\ file' = file /\ backups' = backups)
       /\ (pc = "returned" /\ result = "None" /\ mode = "continuous") =>
             (pc' \in {"cycle", "interrupted"} /\ file' = file /\ backups' = backups)]_vars

\* A cycle with incoming records whose read of the existing file raised.
ReadFailed == PastMerge /\ result = "frame" /\ new_df # <<>> /\ ReadRaises(pre_file)

\* C9 as claimed: when the read of the existing file raises, the update
\* goes on with the file taken as absent: all N incoming records count as
\* new, the data file then holds exactly those N records and the cycle
\* returns True.
C9_UnreadableFileReplaced ==
    ReadFailed =>
        /\ new_records = new_df
        /\ combined_df = new_df
        /\ PastUpdate =>
              /\ file.st = "ok"
              /\ OnDisk = new_df
              /\ Len(file.rows) = Len(new_df)
        /\ pc = "returned" => success

\* C9: when the read of the existing file raises, the update goes on with
\* the file taken as absent and all N incoming records count as new.  When
\* the rename and the write succeed the unreadable file is in a backup,
\* the data file holds exactly those N records, N is returned and the
\* cycle returns True; when either raises 0 is returned, and the cycle
\* returns True unless the file then at the path does not parse.
C9_UnreadableFileReplacedWhenSaved ==
    ReadFailed =>
        /\ new_records = new_df
        /\ combined_df = new_df
        /\ PastUpdate =>
              IF Written
              THEN /\ OnDisk = new_df
                   /\ Len(file.rows) = Len(new_df)
                   /\ ret = Len(new_df)
                   /\ \E t \in Seconds : backups[t] = pre_file
              ELSE ret = 0
        /\ pc = "returned" => (success <=> ~(Exists(file) /\ ReadRaises(file)))
        /\ (pc = "returned" /\ Written) => success

C9_Witness ==
    /\ pc = "returned"
    /\ result = "frame"
    /\ ReadRaises(pre_file)
    /\ Len(new_df) = 2
    /\ ret = 2
    /\ success
    /\ Len(file.rows) = 2

\* C10: continuous mode ends only by an interrupt: after every cycle it
\* sleeps and starts another, for every interval the parser accepts.
C10_OnlyInterruptEndsLoop ==
    [][(mode = "continuous" /\ pc \in Running) => pc' \in Running \cup {"interrupted"}]_vars

\* The records of the data file that read, and the days of their dates.
Stored == IF file.st = "ok" THEN OnDisk ELSE <<>>
StoredDays ==
    LET df == Stored
    IN  {DateOrd(df[i].date) : i \in {j \in 1..Len(df) : df[j].date # NA}}
LatestStoredDay ==
    LET days == StoredDays
    IN  CHOOSE d \in days : \A e \in days : e <= d

\* The Checkpoint as claimed: the latest transaction date of the data
\* file, else the modification time of the file, else, when no file
\* exists, seven days before now.
Checkpoint ==
    IF StoredDays # {} THEN LatestStoredDay
    ELSE IF Exists(file) THEN mtime
    ELSE now - 7

\* C11 as claimed: the from_date of a fetch is never earlier than now minus
\* 30 days: it is now minus 30 days when the Checkpoint is older than
\* that, and the Checkpoint otherwise.
C11_FromDateClamped ==
    pc = "request" =>
        /\ from_date >= now - 30
        /\ Checkpoint < now - 30 => from_date = now - 30
        /\ Checkpoint >= now - 30 => from_date = Checkpoint

\* The file exists and yields no record: it does not parse, or holds the
\* header alone.
NoRecordReads == Exists(file) /\ Stored = <<>>

\* C11: the from_date of a fetch is never earlier than now minus 30 days.
\* For a file that exists and yields no record it is seven days before
\* now, whatever the modification time of the file; in every other case it
\* is now minus 30 days when the Checkpoint is older than that, and the
\* Checkpoint otherwise.
C11_FromDateClampedOrLookback ==
    pc = "request" =>
        /\ from_date >= now - 30
        /\ NoRecordReads => from_date = now - 7
        /\ (~NoRecordReads /\ Checkpoint < now - 30) => from_date = now - 30
        /\ (~NoRecordReads /\ Checkpoint >= now - 30) => from_date = Checkpoint

\* A data file whose latest record is older than the limit.
C11_Witness ==
    /\ pc = "request"
    /\ file.st = "ok"
    /\ HasDate(OnDisk)
    /\ Checkpoint = 3
    /\ now = 40
    /\ from_date = 10

\* Latest first: no record stands before one with a later date.
SortedByDateDesc(df) ==
    \A i, j \in 1..Len(df) :
        (i < j /\ df[i].date # NA /\ df[j].date # NA) =>
            DateOrd(df[i].date) >= DateOrd(df[j].date)

\* C12: after every update that writes the data file, also the first
\* write without a file and the write after a read that raised, the
\* records of the file are ordered by date, latest first.
C12_WrittenSortedByDate ==
    Written => SortedByDateDesc(OnDisk)

\* C13: when the write raises after the existing file was renamed,
\* update_data_file returns 0 although it counted new records, the backup
\* stays where it is, and no step of the cycle from there on moves a backup
\* or puts a file at the data file's path.
C13_FailedWriteLeavesBackup ==
    [][/\ (pc = "write" /\ pc' = "summary" /\ Exists(pre_file)
              /\ file' # Csv(to_csv(combined_df))) =>
             /\ ret' = 0
             /\ new_records # <<>>
             /\ backups' = backups
             /\ \E t \in Seconds : backups'[t] = pre_file
       /\ (PastUpdate /\ Exists(pre_file) /\ new_records # <<>> /\ ~Written) =>
             (file' = file /\ backups' = backups)]_vars

\* The old file is in its backup, the write has raised and left nothing.
C13_Witness ==
    /\ pc = "returned"
    /\ pre_file.st = "ok"
    /\ file = Absent
    /\ new_records # <<>>
    /\ ret = 0
    /\ \E t \in Seconds : backups[t] = pre_file

\* A cycle whose fetch is over.
Fetched == pc \in {"update", "backup", "write", "summary", "returned"}

\* C14: on a 200 JSON response fetch_insider_data returns None when the
\* body has no 'data' list, and an empty result when the list is there and
\* empty; the cycle of an empty list returns True.
C14_EmptyListIsSuccess ==
    /\ (Fetched /\ body \in {"list", "no_data_key", "data_null"}) => result = "None"
    /\ (Fetched /\ body = "data_empty") => (result = "frame" /\ new_df = <<>>)
    /\ (pc = "returned" /\ body = "data_empty") => success

\* The read of line 349 raised: the file is there and does not parse.
SummaryReadRaised == Exists(file) /\ ReadRaises(file)

\* C15: run_update_cycle returns False only when the fetch returned None
\* or an exception escaped a step of the cycle, and True otherwise,
\* whatever update_data_file returned, 0 after a failed write included.
C15_SuccessIgnoresCount ==
    pc = "returned" =>
        /\ ~success => (result = "None" \/ SummaryReadRaised)
        /\ (result = "frame" /\ ~SummaryReadRaised) => success
        /\ (result = "None" \/ SummaryReadRaised) => ~success

\* The write raised, update_data_file returned 0, the cycle returned True.
C15_Witness ==
    /\ pc = "returned"
    /\ result = "frame"
    /\ new_records # <<>>
    /\ Exists(pre_file)
    /\ ~Written
    /\ file = Absent
    /\ ret = 0
    /\ success
====
